---- MODULE Spec2Model ----
(***************************************************************************)
(* Contact sheet PDF generator (ContactSheetPDF, gpencil_io_sheet.cc).     *)
(*                                                                         *)
(* The object's fields are the variables.  Init is the object right after  *)
(* its constructor ran on a parameter block.  Each public method is an     *)
(* action; add_newpage is a first step (up to the page frame) followed by  *)
(* one step per iteration of its loops, its locals being variables.  The   *)
(* collaborators (image loader, image datablock / JPEG transcoder,         *)
(* libharu) are the environment: each of their calls may fail, chosen with *)
(* \E in the step that makes the call.                                     *)
(*                                                                         *)
(* HPDF_REAL / float values are modelled as exact rationals <<n, d>>,      *)
(* d > 0, in lowest terms; float rounding is not modelled.                 *)
(***************************************************************************)
EXTENDS Integers, Sequences, FiniteSets, TLC

VARIABLES
  params_,        \* ContactSheetParams copy: len, rows, cols, page_size, items
  page_size_,     \* float2
  canvas_size_,   \* float2
  rows_, cols_,   \* uint32_t
  bypage_,        \* uint32_t, items by page
  totpages_,      \* uint32_t, total pages
  pdf_,           \* HPDF_Doc: "null", "live" or "freed" (dangling)
  page_,          \* HPDF_Page: "null" or "live"
  thumb_size_,    \* float2, Uninit until get_thumbnail_size ran
  gap_size_,      \* float2, Uninit until get_thumbnail_size ran
  offset_,        \* float2, Uninit until get_thumbnail_size ran
  pc,             \* "idle", "fill" (in the loops of add_newpage), "ret"
  call,           \* the method called last: op, pagenum, ret (once pc = "ret")
  loop,           \* r, c, idx of add_newpage while pc = "fill"
  placed,         \* the (idx, row, col) the current add_newpage handed to
                  \* load_and_draw_image so far
  frame,          \* the draw_page_frame call of the current add_newpage
  ev,             \* what the last step did to the collaborators
  drv,            \* the caller of the class: the operator's exec callback and
                  \* create_contact_sheet_pdf, and where they are
  data,           \* item->data of the item draw_thumbnail writes the texts of
  texts,          \* the texts the last draw_thumbnail wrote
  temp,           \* the temporary image datablock and JPEG file of a
                  \* load_and_draw_image or load_and_draw_logo call
  win,            \* wmWindow: cursor, lastcursor, modalcursor and the cursor
                  \* the window system shows
  gpd             \* the target grease pencil data block of an asset import

vars == <<params_, page_size_, canvas_size_, rows_, cols_, bypage_, totpages_,
          pdf_, page_, thumb_size_, gap_size_, offset_, pc, call, loop, placed,
          frame, ev, drv, data, texts, temp, win, gpd>>

\* The fields no method assigns after the constructor.
fixed == <<params_, page_size_, canvas_size_, rows_, cols_, bypage_, totpages_>>

geometry == <<thumb_size_, gap_size_, offset_>>

\* The variables the methods of the class leave alone.
outside == <<drv, data, texts, temp, win, gpd>>

\* The variables the contact sheet's caller leaves alone as well.
rest == <<data, texts, temp, win, gpd>>

----------------------------------------------------------------------------
(* Bounds of the model.                                                    *)

MaxItems == 7
MaxRows == 2
MaxCols == 3
MaxOverrun == 1

----------------------------------------------------------------------------
(* Rational arithmetic standing for the float arithmetic of the source.    *)

Abs(a) == IF a < 0 THEN -a ELSE a

RECURSIVE GCD(_, _)
GCD(a, b) == IF b = 0 THEN a ELSE GCD(b, a % b)

\* n/d in lowest terms with a positive denominator (d # 0).
RQ(n, d) ==
  LET g == GCD(Abs(n), Abs(d))
      s == IF d < 0 THEN -1 ELSE 1
  IN  <<(s * n) \div g, (s * d) \div g>>

RInt(i) == <<i, 1>>

LCM(a, b) == (a \div GCD(a, b)) * b

RAdd(a, b) ==
  LET l == LCM(a[2], b[2])
  IN  RQ(a[1] * (l \div a[2]) + b[1] * (l \div b[2]), l)

RNeg(a) == <<-a[1], a[2]>>

RSub(a, b) == RAdd(a, RNeg(b))

RMul(a, b) ==
  LET g1 == GCD(Abs(a[1]), b[2])
      g2 == GCD(Abs(b[1]), a[2])
  IN  RQ((a[1] \div g1) * (b[1] \div g2), (a[2] \div g2) * (b[2] \div g1))

\* b # 0
RDiv(a, b) == RMul(a, RQ(b[2], b[1]))

RLe(a, b) == RSub(a, b)[1] <= 0

RLt(a, b) == RSub(a, b)[1] < 0

----------------------------------------------------------------------------
(* Constants of the source.                                                *)

PAGE_MARGIN_X == 80
PAGE_MARGIN_Y == 80

\* page_size set by the operator: 3840 x 2160, swapped for portrait.
PageSizes == {<<3840, 2160>>, <<2160, 3840>>}

\* Image files the items may point to, as (width, height) in pixels.
SizeList == << <<1920, 1080>>, <<1080, 1920>>, <<2000, 1000>>, <<3000, 1000>> >>

\* A float2 field no assignment has reached yet.
Uninit == <<>>

\* What an uninitialised float2 field may hold when it is read.
Garbage == { <<RInt(0), RInt(0)>>, <<RInt(-3), RQ(1, 2)>> }

\* The image an out-of-range items[idx] may name.
GarbageImage == <<1, 1>>

----------------------------------------------------------------------------
(* Constructor.                                                            *)

\* Mutant of TotalPages: the remainder's page is forgotten.
TotalPagesFloor(len, bypage) == len \div bypage

\* totpages_ = len / bypage_, plus one when a remainder is left.
TotalPages(len, bypage) ==
  LET q == len \div bypage
  IN  IF q * bypage < len THEN q + 1 ELSE q

\* The parameter blocks a caller can pass: len items, rows and columns from
\* 1 up (the operator's property range starts at 1), the operator's two
\* page sizes, item i pointing to an image of the list.
ParamBlocks ==
  { [len |-> n, rows |-> r, cols |-> c, page_size |-> ps,
     items |-> [i \in 0 .. n - 1 |-> SizeList[((s + i) % Len(SizeList)) + 1]]] :
      n \in 0 .. MaxItems, r \in 1 .. MaxRows, c \in 1 .. MaxCols,
      ps \in PageSizes, s \in 0 .. Len(SizeList) - 1 }

Nil == <<>>

NoCall == [op |-> "none", pagenum |-> 0, ret |-> TRUE]

NoLoop == [r |-> 0, c |-> 0, idx |-> 0]

NoEvent == [ev |-> "none"]

\* The object the constructor builds from the parameter block pb.
ContactSheetPDF(pb) ==
  LET size == <<RInt(pb.page_size[1]), RInt(pb.page_size[2])>>
      bypage == pb.rows * pb.cols
  IN  [params_ |-> pb,
       pdf_ |-> "null",
       page_ |-> "null",
       page_size_ |-> size,
       canvas_size_ |-> <<RSub(size[1], RInt(PAGE_MARGIN_X * 2)),
                          RSub(size[2], RInt(PAGE_MARGIN_Y * 2))>>,
       rows_ |-> pb.rows,
       cols_ |-> pb.cols,
       bypage_ |-> bypage,
       totpages_ |-> TotalPages(pb.len, bypage)]

\* No driver: the methods are called in any order.
NoDriver == [pc |-> "none"]

Init ==
  /\ params_ \in ParamBlocks
  /\ LET o == ContactSheetPDF(params_)
     IN  /\ pdf_ = o.pdf_
         /\ page_ = o.page_
         /\ page_size_ = o.page_size_
         /\ canvas_size_ = o.canvas_size_
         /\ rows_ = o.rows_
         /\ cols_ = o.cols_
         /\ bypage_ = o.bypage_
         /\ totpages_ = o.totpages_
  /\ thumb_size_ = Uninit
  /\ gap_size_ = Uninit
  /\ offset_ = Uninit
  /\ pc = "idle"
  /\ call = NoCall
  /\ loop = NoLoop
  /\ placed = <<>>
  /\ frame = Nil
  /\ ev = NoEvent
  /\ drv = NoDriver
  /\ data = <<>>
  /\ texts = <<>>
  /\ temp = Nil
  /\ win = Nil
  /\ gpd = Nil

----------------------------------------------------------------------------
(* get_thumbnail_size and draw_thumbnail: the layout arithmetic.           *)

Quarter == RQ(1, 4)

Half == RQ(1, 2)

\* Mutant of ThumbSize: the larger of x_size and y_size is taken.
ThumbSizeLargest(iw, ih, oversize) ==
  LET x_size == RDiv(canvas_size_[1], RAdd(RInt(cols_), oversize))
      y_size == RDiv(canvas_size_[2], RAdd(RInt(rows_), oversize))
      tx == IF RLe(x_size, y_size) THEN y_size ELSE x_size
  IN  <<tx, RMul(tx, RQ(ih, iw))>>

\* thumb_size_ of get_thumbnail_size for an image iw x ih and an oversize.
ThumbSize(iw, ih, oversize) ==
  LET x_size == RDiv(canvas_size_[1], RAdd(RInt(cols_), oversize))
      y_size == RDiv(canvas_size_[2], RAdd(RInt(rows_), oversize))
      tx == IF RLe(x_size, y_size) THEN x_size ELSE y_size
  IN  <<tx, RMul(tx, RQ(ih, iw))>>

\* Mutant of GapAndOffset: the vertical gap is taken over the columns.
GapAndOffsetByColumns(thumb) ==
  LET gx == RDiv(RSub(canvas_size_[1], RMul(thumb[1], RInt(cols_))), RInt(cols_))
      gy == RDiv(RSub(canvas_size_[2], RMul(thumb[2], RInt(cols_))), RInt(cols_))
  IN  [thumb_size_ |-> thumb,
       gap_size_ |-> <<gx, gy>>,
       offset_ |-> <<RAdd(RInt(PAGE_MARGIN_X), RMul(gx, Half)),
                     RAdd(RInt(PAGE_MARGIN_Y), RMul(gy, Half))>>]

\* Mutant of GapAndOffset: a negative gap is clamped to 0.
GapAndOffsetClamped(thumb) ==
  LET gx == RDiv(RSub(canvas_size_[1], RMul(thumb[1], RInt(cols_))), RInt(cols_))
      gy == RDiv(RSub(canvas_size_[2], RMul(thumb[2], RInt(rows_))), RInt(rows_))
      cx == IF gx[1] < 0 THEN RInt(0) ELSE gx
      cy == IF gy[1] < 0 THEN RInt(0) ELSE gy
  IN  [thumb_size_ |-> thumb,
       gap_size_ |-> <<cx, cy>>,
       offset_ |-> <<RAdd(RInt(PAGE_MARGIN_X), RMul(cx, Half)),
                     RAdd(RInt(PAGE_MARGIN_Y), RMul(cy, Half))>>]

\* gap_size_ and offset_ of get_thumbnail_size for the thumbnail size thumb.
GapAndOffset(thumb) ==
  LET gx == RDiv(RSub(canvas_size_[1], RMul(thumb[1], RInt(cols_))), RInt(cols_))
      gy == RDiv(RSub(canvas_size_[2], RMul(thumb[2], RInt(rows_))), RInt(rows_))
  IN  [thumb_size_ |-> thumb,
       gap_size_ |-> <<gx, gy>>,
       offset_ |-> <<RAdd(RInt(PAGE_MARGIN_X), RMul(gx, Half)),
                     RAdd(RInt(PAGE_MARGIN_Y), RMul(gy, Half))>>]

\* Mutant of get_thumbnail_size: a ratio of exactly 2.0 counts as wide.
get_thumbnail_size_wide_at_2(iw, ih) ==
  LET ratio == RQ(iw, ih)
      oversize == IF RLe(RInt(2), ratio) THEN RInt(0) ELSE Quarter
  IN  GapAndOffset(ThumbSize(iw, ih, oversize))

\* The fields get_thumbnail_size(iw, ih) assigns, iw, ih > 0.
get_thumbnail_size(iw, ih) ==
  LET ratio == RQ(iw, ih)
      oversize == IF RLt(RInt(2), ratio) THEN RInt(0) ELSE Quarter
  IN  GapAndOffset(ThumbSize(iw, ih, oversize))

\* Mutant of ThumbnailPos: row and column are swapped.
ThumbnailPosSwapped(geo, row, col) ==
  <<RAdd(geo.offset_[1],
         RMul(RAdd(geo.thumb_size_[1], geo.gap_size_[1]), RInt(row))),
    RAdd(geo.offset_[2],
         RMul(RAdd(geo.thumb_size_[2], geo.gap_size_[2]), RInt(col)))>>

\* pos_x, pos_y of draw_thumbnail for the geometry geo.
ThumbnailPos(geo, row, col) ==
  <<RAdd(geo.offset_[1],
         RMul(RAdd(geo.thumb_size_[1], geo.gap_size_[1]), RInt(col))),
    RAdd(geo.offset_[2],
         RMul(RAdd(geo.thumb_size_[2], geo.gap_size_[2]), RInt(row)))>>

----------------------------------------------------------------------------
(* load_and_draw_image, load_and_draw_logo, draw_page_frame.               *)

\* Where a load-and-draw call gives up: the image load, the image datablock,
\* the save options, the JPEG save, the JPEG load into the document.
FailStages == {"load", "ima", "opts", "save", "jpeg"}

\* FailStages, or "none" when no collaborator fails.
Stages == FailStages \cup {"none"}

\* The item event of load_and_draw_image: fit is the size the image is
\* scaled to and drawn with, called whether HPDF_Page_DrawImage is reached.
ItemEvent(idx, row, col, stage, geo, pageLive, img, fit, called) ==
  [ev |-> "item", idx |-> idx, row |-> row, col |-> col, stage |-> stage,
   img |-> IF stage = "load" THEN Nil ELSE img,
   scaled |-> IF stage = "load" THEN Nil ELSE fit,
   called |-> called,
   drawn |-> called /\ pageLive,
   pos |-> IF called THEN ThumbnailPos(geo, row, col) ELSE Nil,
   size |-> IF called THEN fit ELSE Nil]

\* The image items[idx] names.
ItemImage(idx) == IF idx < params_.len THEN params_.items[idx] ELSE GarbageImage

\* Mutant of load_and_draw_image: the thumbnail keeps the aspect ratio of
\* the item's own image.
load_and_draw_image_own_aspect(idx, row, col, stage, geo, pageLive) ==
  LET img == ItemImage(idx)
  IN  ItemEvent(idx, row, col, stage, geo, pageLive, img,
                <<geo.thumb_size_[1], RMul(geo.thumb_size_[1], RQ(img[2], img[1]))>>,
                stage = "none")

\* Mutant of load_and_draw_image: draw_thumbnail does not test pdf_image.
load_and_draw_image_no_null_test(idx, row, col, stage, geo, pageLive) ==
  ItemEvent(idx, row, col, stage, geo, pageLive, ItemImage(idx),
            geo.thumb_size_, stage \in {"none", "jpeg"})

\* What load_and_draw_image(item, row, col) does for the item at idx, given
\* the stage where a collaborator fails and the geometry it reads: the
\* image is scaled to thumb_size_ once loaded, and draw_thumbnail draws it
\* at the cell's position when no stage failed.
load_and_draw_image(idx, row, col, stage, geo, pageLive) ==
  ItemEvent(idx, row, col, stage, geo, pageLive, ItemImage(idx),
            geo.thumb_size_, stage = "none")

\* load_and_draw_logo: the logo is drawn when nothing fails.
load_and_draw_logo(stage, pageLive) ==
  [stage |-> stage, drawn |-> stage = "none" /\ pageLive]

\* Mutant of draw_page_frame: only the first page gets its frame.
draw_page_frame_first_page_only(pagenum, pageLive) ==
  [pagenum |-> pagenum, drawn |-> pageLive /\ pagenum = 0]

\* draw_page_frame: the frame and the header texts go to the page.
draw_page_frame(pagenum, pageLive) ==
  [pagenum |-> pagenum, drawn |-> pageLive]

\* What the first step of add_newpage did: the logo, the load of the first
\* item's image ("none" when the page does not load it, else "loaded" or
\* "failed"), and the page frame (Nil when the step returned before
\* draw_page_frame).
BeginEvent(logo, first, page_frame) ==
  [ev |-> "begin", logo |-> logo, first |-> first, frame |-> page_frame]

----------------------------------------------------------------------------
(* add_newpage.                                                            *)

\* Mutant of start_idx: a page is taken to hold one row of items.
start_idx_one_row(pagenum) == pagenum * cols_

\* start_idx of add_newpage.
start_idx(pagenum) == pagenum * bypage_

\* Mutant of Advance: the rows of a column are filled before the next
\* column is entered.
AdvanceRowsFirst(r, c, idx) ==
  IF idx = params_.len THEN [doit |-> FALSE, r |-> r, c |-> c]
  ELSE IF r - 1 >= 0 THEN [doit |-> TRUE, r |-> r - 1, c |-> c]
  ELSE IF c + 1 < cols_ THEN [doit |-> TRUE, r |-> rows_ - 1, c |-> c + 1]
  ELSE [doit |-> FALSE, r |-> r, c |-> c]

\* Mutant of Advance: the loops do not stop at the last item.
AdvanceNoStop(r, c, idx) ==
  IF c + 1 < cols_ THEN [doit |-> TRUE, r |-> r, c |-> c + 1]
  ELSE IF r - 1 >= 0 THEN [doit |-> TRUE, r |-> r - 1, c |-> 0]
  ELSE [doit |-> FALSE, r |-> r, c |-> c]

\* The loop control of add_newpage after the item of cell (r, c) was
\* handled and idx incremented: stop when idx reached len, else the next
\* column, else the first column of the row below, else the loops end.
Advance(r, c, idx) ==
  IF idx = params_.len THEN [doit |-> FALSE, r |-> r, c |-> c]
  ELSE IF c + 1 < cols_ THEN [doit |-> TRUE, r |-> r, c |-> c + 1]
  ELSE IF r - 1 >= 0 THEN [doit |-> TRUE, r |-> r - 1, c |-> 0]
  ELSE [doit |-> FALSE, r |-> r, c |-> c]

CurrentGeometry ==
  [thumb_size_ |-> thumb_size_, gap_size_ |-> gap_size_, offset_ |-> offset_]

\* Mutant of ComputesGeometry: every page computes the geometry.
ComputesGeometryAlways(pagenum) == pagenum >= 0

\* Whether add_newpage(pagenum) computes the thumbnail geometry.
ComputesGeometry(pagenum) == pagenum = 0

\* The warning count add_newpage hands to its caller: none, its result is a
\* bool and load_and_draw_image returns nothing.
WarningsReported == 0

\* Mutant of FirstLoadAborts: the loaded image is not tested.
FirstLoadAbortsNever(pagenum, firstOk) == pagenum < 0 /\ ~firstOk

\* Whether add_newpage(pagenum) returns false at the load of the first
\* item's image.
FirstLoadAborts(pagenum, firstOk) == ComputesGeometry(pagenum) /\ ~firstOk

\* add_newpage up to the loops: the page object, the logo, on page 0 the
\* geometry from the first item's image, the page frame.
add_newpage(pagenum) ==
  /\ pc = "idle"
  /\ pdf_ # "freed"
  /\ pagenum <= totpages_ + MaxOverrun
  /\ placed' = <<>>
  /\ \E pageOk \in BOOLEAN, logoStage \in Stages, firstOk \in BOOLEAN :
       LET pageLive == pdf_ = "live" /\ pageOk
           logo == load_and_draw_logo(logoStage, pageLive)
           first == ItemImage(0)
           geo == get_thumbnail_size(first[1], first[2])
           loaded == IF ~ComputesGeometry(pagenum) THEN "none"
                     ELSE IF firstOk THEN "loaded" ELSE "failed"
       IN  /\ page_' = IF pageLive THEN "live" ELSE "null"
           /\ IF pdf_ = "null"
              THEN /\ pc' = "ret"
                   /\ call' = [op |-> "add_newpage", pagenum |-> pagenum, ret |-> FALSE]
                   /\ ev' = NoEvent
                   /\ frame' = Nil
                   /\ loop' = NoLoop
                   /\ UNCHANGED geometry
              ELSE IF FirstLoadAborts(pagenum, firstOk)
              THEN /\ pc' = "ret"
                   /\ call' = [op |-> "add_newpage", pagenum |-> pagenum, ret |-> FALSE]
                   /\ ev' = BeginEvent(logo, loaded, Nil)
                   /\ frame' = Nil
                   /\ loop' = NoLoop
                   /\ UNCHANGED geometry
              ELSE /\ pc' = "fill"
                   /\ call' = [op |-> "add_newpage", pagenum |-> pagenum, ret |-> TRUE]
                   /\ ev' = BeginEvent(logo, loaded, draw_page_frame(pagenum, pageLive))
                   /\ frame' = draw_page_frame(pagenum, pageLive)
                   /\ loop' = [r |-> rows_ - 1, c |-> 0, idx |-> start_idx(pagenum)]
                   /\ IF ComputesGeometry(pagenum)
                      THEN /\ thumb_size_' = geo.thumb_size_
                           /\ gap_size_' = geo.gap_size_
                           /\ offset_' = geo.offset_
                      ELSE UNCHANGED geometry
  /\ UNCHANGED <<fixed, pdf_, outside>>

\* One iteration of the inner loop of add_newpage: the item at idx goes to
\* cell (r, c), idx is incremented, and the loops go on or the method
\* returns true.
add_newpage_item ==
  /\ pc = "fill"
  /\ \E stage \in Stages, g \in IF thumb_size_ = Uninit THEN Garbage ELSE {Nil} :
       LET geo == IF thumb_size_ = Uninit
                  THEN [thumb_size_ |-> g, gap_size_ |-> g, offset_ |-> g]
                  ELSE CurrentGeometry
       IN  ev' = load_and_draw_image(loop.idx, loop.r, loop.c, stage, geo,
                                     page_ = "live")
  /\ placed' = Append(placed, [idx |-> loop.idx, row |-> loop.r, col |-> loop.c])
  /\ LET nxt == Advance(loop.r, loop.c, loop.idx + 1)
     IN  /\ loop' = [r |-> nxt.r, c |-> nxt.c, idx |-> loop.idx + 1]
         /\ pc' = IF nxt.doit THEN "fill" ELSE "ret"
  /\ UNCHANGED <<fixed, pdf_, page_, geometry, call, frame, outside>>

----------------------------------------------------------------------------
(* create_document, save_document, free_document.                          *)

\* Mutant of create_document: pdf_ is assigned only when HPDF_New succeeds.
create_document_keeps_handle ==
  /\ pc = "idle"
  /\ pdf_ # "live"
  /\ \E ok \in BOOLEAN :
       /\ pdf_' = IF ok THEN "live" ELSE pdf_
       /\ call' = [op |-> "create_document", pagenum |-> 0, ret |-> ok]
  /\ pc' = "ret"
  /\ ev' = NoEvent
  /\ UNCHANGED <<fixed, page_, geometry, loop, placed, frame, outside>>

create_document ==
  /\ pc = "idle"
  /\ pdf_ # "live"
  /\ \E ok \in BOOLEAN :
       /\ pdf_' = IF ok THEN "live" ELSE "null"
       /\ call' = [op |-> "create_document", pagenum |-> 0, ret |-> ok]
  /\ pc' = "ret"
  /\ ev' = NoEvent
  /\ UNCHANGED <<fixed, page_, geometry, loop, placed, frame, outside>>

save_document ==
  /\ pc = "idle"
  /\ pdf_ # "freed"
  /\ \E ok \in BOOLEAN :
       call' = [op |-> "save_document", pagenum |-> 0, ret |-> (pdf_ = "live" /\ ok)]
  /\ pc' = "ret"
  /\ ev' = NoEvent
  /\ UNCHANGED <<fixed, pdf_, page_, geometry, loop, placed, frame, outside>>

\* Mutant of free_document: the test of pdf_ is inverted.
free_document_inverted_test ==
  /\ pc = "idle"
  /\ pdf_' = pdf_
  /\ call' = [op |-> "free_document", pagenum |-> 0, ret |-> TRUE]
  /\ pc' = "ret"
  /\ ev' = NoEvent
  /\ UNCHANGED <<fixed, page_, geometry, loop, placed, frame, outside>>

free_document ==
  /\ pc = "idle"
  /\ pdf_' = IF pdf_ = "null" THEN "null" ELSE "freed"
  /\ call' = [op |-> "free_document", pagenum |-> 0, ret |-> TRUE]
  /\ pc' = "ret"
  /\ ev' = IF pdf_ = "null" THEN NoEvent ELSE [ev |-> "HPDF_Free", doc |-> pdf_]
  /\ UNCHANGED <<fixed, page_, geometry, loop, placed, frame, outside>>

\* The caller takes the result of the call and is ready for its next call.
Return ==
  /\ pc = "ret"
  /\ pc' = "idle"
  /\ call' = NoCall
  /\ loop' = NoLoop
  /\ placed' = <<>>
  /\ frame' = Nil
  /\ ev' = NoEvent
  /\ UNCHANGED <<fixed, pdf_, page_, geometry, outside>>

Next ==
  \/ Return
  \/ create_document
  \/ \E pagenum \in 0 .. MaxItems + MaxOverrun : add_newpage(pagenum)
  \/ add_newpage_item
  \/ save_document
  \/ free_document

Spec == Init /\ [][Next]_vars

----------------------------------------------------------------------------
(* The callers: the operator's exec callback and create_contact_sheet_pdf. *)

\* Parameter blocks without a row or without a column; the operator's rows
\* and columns properties start at 1, so only a direct caller of
\* create_contact_sheet_pdf can pass one.
DegenerateBlocks ==
  { [len |-> n, rows |-> r, cols |-> c, page_size |-> ps,
     items |-> [i \in 0 .. n - 1 |-> SizeList[(i % Len(SizeList)) + 1]]] :
      n \in 0 .. MaxItems, r \in {0, MaxRows}, c \in {0, MaxCols},
      ps \in PageSizes } \ ParamBlocks

\* A request: through the operator ("exec"), whose properties keep rows and
\* columns in range, or by a direct call of create_contact_sheet_pdf ("api").
\* load_data and items are the two allocations of exec ("none", "allocated"
\* or "freed"), customdata is op->customdata ("NULL" or "load_data").
Requests ==
  { [pc |-> IF entry = "exec" THEN "exec" ELSE "engine", entry |-> entry,
     req |-> pb, p |-> 0, save |-> "none", done |-> FALSE, result |-> "none",
     load_data |-> "none", items |-> "none", customdata |-> "NULL"] :
      entry \in {"exec", "api"}, pb \in ParamBlocks \cup DegenerateBlocks }

InitDriver ==
  /\ drv \in { d \in Requests : d.entry = "exec" => d.req \in ParamBlocks }
  /\ params_ = Nil
  /\ pdf_ = "null"
  /\ page_ = "null"
  /\ page_size_ = Uninit
  /\ canvas_size_ = Uninit
  /\ rows_ = 0
  /\ cols_ = 0
  /\ bypage_ = 0
  /\ totpages_ = 0
  /\ thumb_size_ = Uninit
  /\ gap_size_ = Uninit
  /\ offset_ = Uninit
  /\ pc = "idle"
  /\ call = NoCall
  /\ loop = NoLoop
  /\ placed = <<>>
  /\ frame = Nil
  /\ ev = NoEvent
  /\ data = <<>>
  /\ texts = <<>>
  /\ temp = Nil
  /\ win = Nil
  /\ gpd = Nil

\* The variables of the class and of its current call.
sheet == <<fixed, pdf_, page_, geometry, pc, call, loop, placed, frame, ev>>

\* Mutant of wm_contact_sheet_pdf_exec: the file count is not tested.
wm_contact_sheet_pdf_exec_no_len_test ==
  /\ drv.pc = "exec"
  /\ drv' = [drv EXCEPT !.pc = "engine"]
  /\ UNCHANGED <<sheet, rest>>

\* wm_contact_sheet_pdf_cancel on the operator state d: if op->customdata
\* is set, the item array and the block it points to are freed and the
\* pointer is cleared (MEM_SAFE_FREE frees a non-null pointer and nulls it).
wm_contact_sheet_pdf_cancel(d) ==
  IF d.customdata = "NULL" THEN d
  ELSE [d EXCEPT !.items = IF d.items = "allocated" THEN "freed" ELSE d.items,
                 !.load_data = "freed", !.customdata = "NULL"]

\* wm_contact_sheet_pdf_exec up to its call of create_contact_sheet_pdf:
\* the block is allocated; without files the operator is cancelled, else
\* the item array is allocated and op->customdata set to the block.
wm_contact_sheet_pdf_exec ==
  /\ drv.pc = "exec"
  /\ LET load_data == [drv EXCEPT !.load_data = "allocated"]
     IN  drv' = IF drv.req.len = 0
                THEN [wm_contact_sheet_pdf_cancel(load_data) EXCEPT
                        !.pc = "finished", !.result = "OPERATOR_CANCELLED"]
                ELSE [load_data EXCEPT !.items = "allocated",
                                       !.customdata = "load_data",
                                       !.pc = "engine"]
  /\ UNCHANGED <<sheet, rest>>

\* wm_contact_sheet_pdf_exec after create_contact_sheet_pdf returned: the
\* custom data is freed and the operator finishes, done or not.
wm_contact_sheet_pdf_exec_end ==
  /\ drv.pc = "engine_ret"
  /\ drv.entry = "exec"
  /\ drv' = [wm_contact_sheet_pdf_cancel(drv) EXCEPT
               !.pc = "finished", !.result = "OPERATOR_FINISHED"]
  /\ UNCHANGED <<sheet, rest>>

\* rows or cols < 1, or an empty item list.
InvalidParameters(pb) == pb.rows < 1 \/ pb.cols < 1 \/ pb.len = 0

\* create_contact_sheet_pdf, entered: invalid parameters are rejected, else
\* the engine is constructed.
create_contact_sheet_pdf ==
  /\ drv.pc = "engine"
  /\ IF InvalidParameters(drv.req)
     THEN /\ drv' = [drv EXCEPT !.pc = "engine_ret", !.done = FALSE]
          /\ UNCHANGED fixed
     ELSE /\ drv' = [drv EXCEPT !.pc = "create"]
          /\ LET o == ContactSheetPDF(drv.req)
             IN  /\ params_' = o.params_
                 /\ page_size_' = o.page_size_
                 /\ canvas_size_' = o.canvas_size_
                 /\ rows_' = o.rows_
                 /\ cols_' = o.cols_
                 /\ bypage_' = o.bypage_
                 /\ totpages_' = o.totpages_
  /\ UNCHANGED <<pdf_, page_, geometry, pc, call, loop, placed, frame, ev,
                 rest>>

\* create_contact_sheet_pdf calling the method its state machine is at:
\* Created, per page FrameDrawn and ItemsPlaced, Saved, Freed.
sheet_call ==
  \/ drv.pc = "create" /\ create_document
  \/ drv.pc = "pages" /\ add_newpage(drv.p)
  \/ drv.pc = "pages" /\ add_newpage_item
  \/ drv.pc = "save" /\ save_document
  \/ drv.pc = "free" /\ free_document

\* Where create_contact_sheet_pdf goes with the result of the call: a
\* document-level failure aborts and triggers the cleanup, the pages are
\* added in order, the result of the save is the result of the whole, and
\* Free is always invoked.
AfterCall ==
  CASE call.op = "create_document" ->
         IF call.ret THEN [drv EXCEPT !.pc = "pages", !.p = 0]
         ELSE [drv EXCEPT !.pc = "free"]
    [] call.op = "add_newpage" ->
         IF ~call.ret THEN [drv EXCEPT !.pc = "free"]
         ELSE IF drv.p + 1 < totpages_ THEN [drv EXCEPT !.p = drv.p + 1]
         ELSE [drv EXCEPT !.pc = "save"]
    [] call.op = "save_document" ->
         [drv EXCEPT !.pc = "free", !.done = call.ret,
                     !.save = IF call.ret THEN "saved" ELSE "failed"]
    [] call.op = "free_document" -> [drv EXCEPT !.pc = "engine_ret"]

\* create_contact_sheet_pdf takes the result of the method it called.
sheet_return ==
  /\ drv.pc \in {"create", "pages", "save", "free"}
  /\ pc = "ret"
  /\ drv' = AfterCall
  /\ pc' = "idle"
  /\ call' = NoCall
  /\ loop' = NoLoop
  /\ placed' = <<>>
  /\ frame' = Nil
  /\ ev' = NoEvent
  /\ UNCHANGED <<fixed, pdf_, page_, geometry, rest>>

NextDriver ==
  \/ wm_contact_sheet_pdf_exec
  \/ create_contact_sheet_pdf
  \/ sheet_call
  \/ sheet_return
  \/ wm_contact_sheet_pdf_exec_end

SpecDriver == InitDriver /\ [][NextDriver]_vars

----------------------------------------------------------------------------
(* draw_thumbnail's text: the item name, then the tokens of item->data.    *)
(* item->data is a char buffer that strtok_s cuts in place; params_ is a   *)
(* shallow copy of the caller's block, so the buffer is the caller's.      *)

\* The longest annotation text tried.
MaxData == 9

\* The separator of draw_thumbnail (char sep[2] = "|").
sep == "|"

\* The characters of an annotation text: two letters and the separator.
Chars == {"a", "b", sep}

\* The terminating character '\0'.
NUL == "NUL"

\* Every text of at most MaxData characters.
Texts == UNION { [1 .. n -> Chars] : n \in 0 .. MaxData }

\* item->name; nothing writes it.
ItemName == <<"n">>

\* The character at position k of a buffer; the text's terminator follows
\* its last character.
CharAt(str, k) == IF k <= Len(str) THEN str[k] ELSE NUL

\* The first position from k on that holds no separator.
RECURSIVE SkipSeparators(_, _)
SkipSeparators(str, k) ==
  IF CharAt(str, k) = sep THEN SkipSeparators(str, k + 1) ELSE k

\* The first position from k on that holds a separator or '\0'.
RECURSIVE TokenEnd(_, _)
TokenEnd(str, k) ==
  IF CharAt(str, k) \in {sep, NUL} THEN k ELSE TokenEnd(str, k + 1)

\* The position of the first '\0' from k on.
RECURSIVE NulAt(_, _)
NulAt(str, k) == IF CharAt(str, k) = NUL THEN k ELSE NulAt(str, k + 1)

\* The C string that starts at position k: the characters before the
\* first '\0'.
CString(str, k) == SubSeq(str, k, NulAt(str, k) - 1)

\* strtok_s from position k: skips the separators, returns NULL when no
\* character is left, else overwrites the separator that ends the token
\* with '\0' and keeps the position after it in next_p.
strtok_s(str, k) ==
  LET b == SkipSeparators(str, k)
      e == TokenEnd(str, b)
  IN  IF CharAt(str, b) = NUL
      THEN [null |-> TRUE, token |-> <<>>, next_p |-> b, str |-> str]
      ELSE [null |-> FALSE, token |-> SubSeq(str, b, e - 1),
            next_p |-> IF CharAt(str, e) = sep THEN e + 1 ELSE e,
            str |-> IF CharAt(str, e) = sep
                    THEN [str EXCEPT ![e] = NUL] ELSE str]

\* const int maxtokens = 3.
maxtokens == 3

\* Mutant of TextLine: every token is written on the first line.
TextLine_first_line(i, t) == [i |-> 1, null |-> t.null, text |-> t.token]

\* write_text on line i under the thumbnail; t is a strtok_s result.
TextLine(i, t) == [i |-> i, null |-> t.null, text |-> t.token]

\* The while loop of draw_thumbnail: t is the current token, tok the count
\* of tokens written by the loop, i the next line, out the lines so far.
RECURSIVE MoreTokens(_, _, _, _)
MoreTokens(t, tok, i, out) ==
  IF t.null \/ tok + 1 > maxtokens
  THEN [str |-> t.str, lines |-> out]
  ELSE MoreTokens(strtok_s(t.str, t.next_p), tok + 1, i + 1,
                  Append(out, TextLine(i, t)))

\* The text part of draw_thumbnail on a buffer: the lines written and the
\* buffer it leaves.
ThumbnailText(str) ==
  LET name == <<[i |-> 0, null |-> FALSE, text |-> ItemName]>>
  IN  IF CharAt(str, 1) = NUL
      THEN [str |-> str, lines |-> name]
      ELSE LET t == strtok_s(str, 1)
               first == Append(name, TextLine(1, t))
           IN  IF CharAt(t.str, t.next_p) = NUL
               THEN [str |-> t.str, lines |-> first]
               ELSE MoreTokens(strtok_s(t.str, t.next_p), 0, 2, first)

\* A document with one item on a one-cell page; data.given is the text the
\* caller supplied, data.str the buffer as it is now.
InitText ==
  /\ params_ \in { pb \in ParamBlocks :
                      /\ pb.len = 1 /\ pb.rows = 1 /\ pb.cols = 1
                      /\ pb.page_size = <<3840, 2160>>
                      /\ pb.items[0] = SizeList[1] }
  /\ LET o == ContactSheetPDF(params_)
     IN  /\ pdf_ = o.pdf_
         /\ page_ = o.page_
         /\ page_size_ = o.page_size_
         /\ canvas_size_ = o.canvas_size_
         /\ rows_ = o.rows_
         /\ cols_ = o.cols_
         /\ bypage_ = o.bypage_
         /\ totpages_ = o.totpages_
  /\ thumb_size_ = Uninit
  /\ gap_size_ = Uninit
  /\ offset_ = Uninit
  /\ pc = "idle"
  /\ call = NoCall
  /\ loop = NoLoop
  /\ placed = <<>>
  /\ frame = Nil
  /\ ev = NoEvent
  /\ drv = NoDriver
  /\ data \in { [given |-> s, str |-> s] : s \in Texts }
  /\ texts = <<>>
  /\ temp = Nil
  /\ win = Nil
  /\ gpd = Nil

\* draw_thumbnail(pdf_image, row, col, item): nothing for a null image,
\* else the name and the tokens of item->data.
draw_thumbnail ==
  \E pdf_image \in {"null", "image"} :
    /\ IF pdf_image = "null"
       THEN UNCHANGED <<data, texts>>
       ELSE LET r == ThumbnailText(data.str)
            IN  /\ data' = [data EXCEPT !.str = r.str]
                /\ texts' = r.lines
    /\ UNCHANGED <<sheet, drv, temp, win, gpd>>

NextText == draw_thumbnail

SpecText == InitText /\ [][NextText]_vars

----------------------------------------------------------------------------
(* load_and_draw_image and load_and_draw_logo, call by call: the image     *)
(* buffer, the temporary "Thumb" datablock in bmain_ and the temporary     *)
(* JPEG file in the session's temporary directory.                         *)

\* The calls of load_and_draw_image and load_and_draw_logo followed.
MaxCalls == 3

\* An engine built from the one-item block pb, no method called yet.
Constructed(pb) ==
  /\ params_ = pb
  /\ LET o == ContactSheetPDF(pb)
     IN  /\ pdf_ = o.pdf_
         /\ page_ = o.page_
         /\ page_size_ = o.page_size_
         /\ canvas_size_ = o.canvas_size_
         /\ rows_ = o.rows_
         /\ cols_ = o.cols_
         /\ bypage_ = o.bypage_
         /\ totpages_ = o.totpages_
  /\ thumb_size_ = Uninit
  /\ gap_size_ = Uninit
  /\ offset_ = Uninit
  /\ pc = "idle"
  /\ call = NoCall
  /\ loop = NoLoop
  /\ placed = <<>>
  /\ frame = Nil
  /\ ev = NoEvent

\* The block of one item on a one-cell landscape page.
OneItemBlock ==
  CHOOSE pb \in ParamBlocks :
    /\ pb.len = 1 /\ pb.rows = 1 /\ pb.cols = 1
    /\ pb.page_size = <<3840, 2160>>
    /\ pb.items[0] = SizeList[1]

\* No call yet: bmain_ holds no "Thumb" datablock and the temporary
\* directory no thumb.jpg or logo.jpg.
NoTemp ==
  [fn |-> "none", at |-> "ret", ibuf |-> "null", ima |-> "null",
   opts |-> "unset", pdf_image |-> "unset", drawn |-> FALSE,
   calls |-> 0, images |-> 0, files |-> 0]

InitTemp ==
  /\ Constructed(OneItemBlock)
  /\ drv = NoDriver
  /\ data = <<>>
  /\ texts = <<>>
  /\ temp = NoTemp
  /\ win = Nil
  /\ gpd = Nil

\* What the steps of a load-and-draw call leave alone.
beside_temp == <<sheet, drv, data, texts, win, gpd>>

\* add_newpage calls load_and_draw_logo or load_and_draw_image.
load_and_draw ==
  /\ temp.at = "ret"
  /\ temp.calls < MaxCalls
  /\ \E fn \in {"load_and_draw_image", "load_and_draw_logo"} :
       temp' = [temp EXCEPT !.fn = fn, !.at = "IMB_loadiffname",
                            !.ibuf = "null", !.ima = "null", !.opts = "unset",
                            !.pdf_image = "unset", !.drawn = FALSE,
                            !.calls = temp.calls + 1]
  /\ UNCHANGED beside_temp

\* ibuf = IMB_loadiffname(path); a null ibuf returns. The loaded buffer is
\* scaled in place.
IMB_loadiffname ==
  /\ temp.at = "IMB_loadiffname"
  /\ \/ temp' = [temp EXCEPT !.ibuf = "live", !.at = "BKE_image_add_from_imbuf"]
     \/ temp' = [temp EXCEPT !.at = "ret"]
  /\ UNCHANGED beside_temp

\* ima = BKE_image_add_from_imbuf(bmain_, ibuf, "Thumb"); IMB_freeImBuf(ibuf);
\* a null ima returns.
BKE_image_add_from_imbuf ==
  /\ temp.at = "BKE_image_add_from_imbuf"
  /\ \/ temp' = [temp EXCEPT !.ima = "live", !.images = temp.images + 1,
                             !.ibuf = "freed",
                             !.at = "BKE_image_save_options_init"]
     \/ temp' = [temp EXCEPT !.ibuf = "freed", !.at = "ret"]
  /\ UNCHANGED beside_temp

\* if (BKE_image_save_options_init(&opts, ...)) { ... }: the function has
\* no statement after the if.
BKE_image_save_options_init ==
  /\ temp.at = "BKE_image_save_options_init"
  /\ \/ temp' = [temp EXCEPT !.opts = "init", !.at = "BKE_image_save"]
     \/ temp' = [temp EXCEPT !.at = "ret"]
  /\ UNCHANGED beside_temp

\* if (BKE_image_save(nullptr, bmain_, ima, iuser, &opts)) { ... }: a save
\* that fails may have created the file.
BKE_image_save ==
  /\ temp.at = "BKE_image_save"
  /\ \/ temp' = [temp EXCEPT !.files = temp.files + 1,
                             !.at = "HPDF_LoadJpegImageFromFile"]
     \/ \E left \in {0, 1} :
          temp' = [temp EXCEPT !.files = temp.files + left,
                               !.at = "BKE_image_save_options_free"]
  /\ UNCHANGED beside_temp

\* pdf_image = HPDF_LoadJpegImageFromFile(pdf_, opts.filepath), then
\* draw_thumbnail or the logo's HPDF_Page_DrawImage, both for a non-null
\* pdf_image only.
HPDF_LoadJpegImageFromFile ==
  /\ temp.at = "HPDF_LoadJpegImageFromFile"
  /\ \E image \in {"null", "image"} :
       temp' = [temp EXCEPT !.pdf_image = image, !.drawn = image # "null",
                            !.at = "BKE_image_save_options_free"]
  /\ UNCHANGED beside_temp

\* BKE_image_save_options_free(&opts); BKE_id_free(bmain_, ima);
\* if (BLI_exists(opts.filepath)) BLI_delete(opts.filepath, false, false).
BKE_image_save_options_free ==
  /\ temp.at = "BKE_image_save_options_free"
  /\ temp' = [temp EXCEPT !.opts = "freed", !.ima = "freed",
                          !.images = temp.images - 1, !.files = 0,
                          !.at = "ret"]
  /\ UNCHANGED beside_temp

NextTemp ==
  \/ load_and_draw
  \/ IMB_loadiffname
  \/ BKE_image_add_from_imbuf
  \/ BKE_image_save_options_init
  \/ BKE_image_save
  \/ HPDF_LoadJpegImageFromFile
  \/ BKE_image_save_options_free

SpecTemp == InitTemp /\ [][NextTemp]_vars

----------------------------------------------------------------------------
(* get_thumbnail_size and the position of draw_thumbnail over every first  *)
(* image, grid and page of a range.                                        *)

\* The longest side of the first image, in pixels.
MaxSide == 5

\* The most rows and the most columns of a grid.
MaxGrid == 3

\* The page sizes tried: the operator's two and a square one.
LayoutPages == PageSizes \cup {<<1160, 1160>>}

\* Blocks whose items all name one image of iw x ih pixels.
LayoutBlocks ==
  { [len |-> r * c, rows |-> r, cols |-> c, page_size |-> ps,
     items |-> [i \in 0 .. r * c - 1 |-> <<iw, ih>>]] :
      r \in 1 .. MaxGrid, c \in 1 .. MaxGrid, ps \in LayoutPages,
      iw \in 1 .. MaxSide, ih \in 1 .. MaxSide }

InitLayout ==
  /\ \E pb \in LayoutBlocks : Constructed(pb)
  /\ drv = NoDriver
  /\ data = <<>>
  /\ texts = <<>>
  /\ temp = Nil
  /\ win = Nil
  /\ gpd = Nil

\* get_thumbnail_size(ibuf->x, ibuf->y) for the first item's image.
first_thumbnail_size ==
  /\ thumb_size_ = Uninit
  /\ LET geo == get_thumbnail_size(params_.items[0][1], params_.items[0][2])
     IN  /\ thumb_size_' = geo.thumb_size_
         /\ gap_size_' = geo.gap_size_
         /\ offset_' = geo.offset_
  /\ UNCHANGED <<fixed, pdf_, page_, pc, call, loop, placed, frame, ev, outside>>

\* pos_x, pos_y and the size draw_thumbnail hands to HPDF_Page_DrawImage
\* for a cell of the grid.
thumbnail_position ==
  /\ thumb_size_ # Uninit
  /\ \E row \in 0 .. rows_ - 1, col \in 0 .. cols_ - 1 :
       ev' = [ev |-> "thumbnail", row |-> row, col |-> col,
              pos |-> ThumbnailPos(CurrentGeometry, row, col),
              size |-> thumb_size_]
  /\ UNCHANGED <<fixed, pdf_, page_, geometry, pc, call, loop, placed, frame,
                 outside>>

NextLayout ==
  \/ first_thumbnail_size
  \/ thumbnail_position

SpecLayout == InitLayout /\ [][NextLayout]_vars

----------------------------------------------------------------------------
(* wm_cursors.cc: the cursor of a window. win->cursor, win->lastcursor and *)
(* win->modalcursor hold a cursor type or 0; shape and visible are what    *)
(* the window system was last told to show.                                *)

\* The cursor types followed; "0" is the value 0, no cursor type.
Cursors == {"WM_CURSOR_DEFAULT", "WM_CURSOR_WAIT", "WM_CURSOR_EDIT",
            "WM_CURSOR_NONE"}

\* The numbers WM_cursor_time is asked to show.
TimeNumbers == {0, 42}

\* A window after WM_cursor_set(win, WM_CURSOR_DEFAULT) at its creation, or
\* before it (cursor 0), with G.background set or not. op, arg and ret are
\* the last call and its result; run, count, before and saved follow the
\* calls of one kind in a row: the cursor and the saved cursor the window
\* had before the first of them; closed is the run a restore ended.
Windows ==
  { [cursor |-> c, lastcursor |-> "0", modalcursor |-> "0",
     shape |-> c, visible |-> TRUE, background |-> b, nr |-> 0,
     op |-> "none", arg |-> "0", ret |-> FALSE,
     run |-> "none", closed |-> "none", count |-> 0, before |-> "0",
     saved |-> "0"] :
      c \in {"0", "WM_CURSOR_DEFAULT"}, b \in BOOLEAN }

InitCursor ==
  /\ Constructed(OneItemBlock)
  /\ drv = NoDriver
  /\ data = <<>>
  /\ texts = <<>>
  /\ temp = Nil
  /\ win \in Windows
  /\ gpd = Nil

\* What the window manager's calls leave alone.
beside_win == <<sheet, drv, data, texts, temp, gpd>>

\* The fields of w after WM_cursor_set(win, curs): nothing in background
\* mode; the default cursor gives way to a modal cursor; WM_CURSOR_NONE
\* hides the cursor and returns; else the cursor is shown and, unless it is
\* the current one, stored and handed to the window system.
CursorSet(w, curs) ==
  LET c == IF curs = "WM_CURSOR_DEFAULT" /\ w.modalcursor # "0"
           THEN w.modalcursor ELSE curs
  IN  IF w.background THEN w
      ELSE IF c = "WM_CURSOR_NONE" THEN [w EXCEPT !.visible = FALSE]
      ELSE IF w.cursor = c THEN [w EXCEPT !.visible = TRUE]
      ELSE [w EXCEPT !.visible = TRUE, !.cursor = c, !.shape = c]

\* Mutant of CursorSetFromTool: the modal cursor is not tested.
CursorSetFromToolOverModal(w, region_ok, tool) ==
  IF region_ok /\ tool # "WM_CURSOR_DEFAULT"
  THEN [CursorSet(w, tool) EXCEPT !.cursor = tool, !.ret = TRUE]
  ELSE [w EXCEPT !.ret = FALSE]

\* WM_cursor_set_from_tool: region_ok says the region is none, a window or
\* a preview region; tool is the tool's cursor, WM_CURSOR_DEFAULT when the
\* area has no tool.
CursorSetFromTool(w, region_ok, tool) ==
  IF region_ok /\ tool # "WM_CURSOR_DEFAULT" /\ w.modalcursor = "0"
  THEN [CursorSet(w, tool) EXCEPT !.cursor = tool, !.ret = TRUE]
  ELSE [w EXCEPT !.ret = FALSE]

\* Mutant of CursorModalSet: the current cursor is saved by every call.
CursorModalSetSavesAlways(w, val) ==
  CursorSet([w EXCEPT !.lastcursor = w.cursor, !.modalcursor = val], val)

\* WM_cursor_modal_set(win, val).
CursorModalSet(w, val) ==
  CursorSet([w EXCEPT !.lastcursor = IF w.lastcursor = "0" THEN w.cursor
                                     ELSE w.lastcursor,
                      !.modalcursor = val], val)

\* WM_cursor_modal_restore(win).
CursorModalRestore(w) ==
  LET m == [w EXCEPT !.modalcursor = "0"]
      s == IF m.lastcursor # "0" THEN CursorSet(m, m.lastcursor) ELSE m
  IN  [s EXCEPT !.lastcursor = "0"]

\* Mutant of CursorTime: the current cursor value is kept.
CursorTimeKeepsCursor(w, number) ==
  [w EXCEPT !.lastcursor = IF w.lastcursor = "0" THEN w.cursor
                           ELSE w.lastcursor,
            !.shape = "time", !.nr = number % 10000]

\* WM_cursor_time(win, nr): the digits of nr become the window's custom
\* cursor (four of them at most) and the current cursor value is unset.
CursorTime(w, number) ==
  [w EXCEPT !.lastcursor = IF w.lastcursor = "0" THEN w.cursor
                           ELSE w.lastcursor,
            !.shape = "time", !.nr = number % 10000,
            !.cursor = "0"]

\* The record of the call in w, made on the window from. kind is "modal"
\* for a modal set, "time" for WM_cursor_time, "restore" for the modal
\* restore, "none" for the others. A call of another kind than the last
\* starts a run at the cursor and the saved cursor of from; the restore
\* closes the run and keeps its record.
Called(w, from, op, arg, kind) ==
  LET goes_on == from.run = kind
      keeps == kind = "restore"
  IN  [w EXCEPT !.op = op, !.arg = arg,
                !.run = IF keeps THEN "none" ELSE kind,
                !.closed = IF keeps THEN from.run ELSE "none",
                !.count = IF keeps THEN from.count
                          ELSE IF kind = "none" THEN 0
                          ELSE IF goes_on
                          THEN (IF from.count < 2 THEN from.count + 1 ELSE 2)
                          ELSE 1,
                !.before = IF keeps \/ goes_on THEN from.before
                           ELSE IF kind = "none" THEN "0"
                           ELSE from.cursor,
                !.saved = IF keeps \/ goes_on THEN from.saved
                          ELSE IF kind = "none" THEN "0"
                          ELSE from.lastcursor]

WM_cursor_set ==
  /\ \E curs \in Cursors :
       win' = Called([CursorSet(win, curs) EXCEPT !.ret = FALSE], win,
                     "WM_cursor_set", curs, "none")
  /\ UNCHANGED beside_win

WM_cursor_set_from_tool ==
  /\ \E region_ok \in BOOLEAN, tool \in Cursors :
       win' = Called(CursorSetFromTool(win, region_ok, tool), win,
                     "WM_cursor_set_from_tool", tool, "none")
  /\ UNCHANGED beside_win

WM_cursor_modal_set ==
  /\ \E val \in Cursors :
       win' = Called([CursorModalSet(win, val) EXCEPT !.ret = FALSE], win,
                     "WM_cursor_modal_set", val, "modal")
  /\ UNCHANGED beside_win

WM_cursor_modal_restore ==
  /\ win' = Called([CursorModalRestore(win) EXCEPT !.ret = FALSE], win,
                   "WM_cursor_modal_restore", "0", "restore")
  /\ UNCHANGED beside_win

\* WM_cursor_wait(val) over the windows, here one: nothing in background
\* mode, else the wait cursor as modal cursor or the restore.
WM_cursor_wait ==
  /\ \E val \in BOOLEAN :
       win' = IF win.background
              THEN Called([win EXCEPT !.ret = FALSE], win,
                          "WM_cursor_wait", "0", "none")
              ELSE IF val
              THEN Called([CursorModalSet(win, "WM_CURSOR_WAIT")
                             EXCEPT !.ret = FALSE], win,
                          "WM_cursor_modal_set", "WM_CURSOR_WAIT", "modal")
              ELSE Called([CursorModalRestore(win) EXCEPT !.ret = FALSE], win,
                          "WM_cursor_modal_restore", "0", "restore")
  /\ UNCHANGED beside_win

WM_cursor_time ==
  /\ \E number \in TimeNumbers :
       win' = Called([CursorTime(win, number) EXCEPT !.ret = FALSE], win,
                     "WM_cursor_time", "0", "time")
  /\ UNCHANGED beside_win

NextCursor ==
  \/ WM_cursor_set
  \/ WM_cursor_set_from_tool
  \/ WM_cursor_modal_set
  \/ WM_cursor_modal_restore
  \/ WM_cursor_wait
  \/ WM_cursor_time

SpecCursor == InitCursor /\ [][NextCursor]_vars

----------------------------------------------------------------------------
(* gpencil_asset.c: the import of an asset's strokes into the target data  *)
(* block. A layer is named by its number, a frame by its layer and its     *)
(* number, a stroke of the target by its place in the target's strokes;    *)
(* 0 is the null pointer.                                                  *)

\* The most strokes of one frame of the asset.
MaxStrokes == 2

\* The strokes of a frame of the asset, each by its material index mat_nr.
FrameStrokes == UNION { [1 .. n -> {-1, 0}] : n \in 0 .. MaxStrokes }

\* The frames of a layer of the asset: none or one.
LayerFrames == UNION { [1 .. n -> FrameStrokes] : n \in 0 .. 1 }

\* The layers of an asset: two at most.
Assets == UNION { [1 .. n -> LayerFrames] : n \in 0 .. 2 }

\* The strokes the target holds before the import: none, or one in frame 1
\* of layer 1, selected or not.
Targets ==
  {<<>>} \cup { <<[gpl |-> 1, gpf |-> 1, select |-> sel, imported |-> FALSE]>> :
                  sel \in BOOLEAN }

\* An element of tgpa->data as MEM_calloc_arrayN leaves it.
NullStroke == [gpl |-> 0, gpf |-> 0, gps |-> 0]

InitAsset ==
  /\ Constructed(OneItemBlock)
  /\ drv = NoDriver
  /\ data = <<>>
  /\ texts = <<>>
  /\ temp = Nil
  /\ win = Nil
  /\ gpd \in { [pc |-> "invoke", asset |-> a, strokes |-> t, data_len |-> 0,
                data |-> <<>>, ret |-> FALSE, result |-> "none"] :
                 a \in Assets, t \in Targets }

\* What the import leaves alone.
beside_gpd == <<sheet, drv, data, texts, temp, win>>

\* The strokes of frame f of layer l, in the order of the list.
RECURSIVE StrokesOfFrame(_, _, _)
StrokesOfFrame(l, f, strokes) ==
  IF strokes = <<>> THEN <<>>
  ELSE <<[gpl |-> l, gpf |-> f, mat_nr |-> Head(strokes)]>>
         \o StrokesOfFrame(l, f, Tail(strokes))

\* The strokes of the frames of layer l from frame f on.
RECURSIVE StrokesOfLayer(_, _, _)
StrokesOfLayer(l, f, frames) ==
  IF f > Len(frames) THEN <<>>
  ELSE StrokesOfFrame(l, f, frames[f]) \o StrokesOfLayer(l, f + 1, frames)

\* The strokes of the asset from layer l on, as the three nested
\* LISTBASE_FOREACH loops visit them.
RECURSIVE StrokesOfAsset(_, _)
StrokesOfAsset(l, asset) ==
  IF l > Len(asset) THEN <<>>
  ELSE StrokesOfLayer(l, 1, asset[l]) \o StrokesOfAsset(l + 1, asset)

\* The duplicating loop over the strokes left to visit: a stroke with
\* mat_nr -1 is skipped, any other is appended to its frame of the target
\* and recorded in the next element of tgpa->data.
RECURSIVE DuplicateStrokes(_, _, _)
DuplicateStrokes(left, strokes, recorded) ==
  IF left = <<>> THEN [strokes |-> strokes, data |-> recorded]
  ELSE LET gps_asset == Head(left)
       IN  IF gps_asset.mat_nr = -1
           THEN DuplicateStrokes(Tail(left), strokes, recorded)
           ELSE DuplicateStrokes(
                  Tail(left),
                  Append(strokes, [gpl |-> gps_asset.gpl, gpf |-> gps_asset.gpf,
                                   select |-> FALSE, imported |-> TRUE]),
                  Append(recorded, [gpl |-> gps_asset.gpl, gpf |-> gps_asset.gpf,
                                    gps |-> Len(strokes) + 1]))

\* tgpa->data_len: the sum of BLI_listbase_count over the frames.
CountStrokes(all) == Len(all)

\* gpencil_asset_append_strokes on g: the count; false for an empty asset;
\* the array of data_len zeroed elements, filled from the first on; every
\* stroke of the target unselected; true.
AppendStrokes(g) ==
  LET all == StrokesOfAsset(1, g.asset)
      len == CountStrokes(all)
      dup == DuplicateStrokes(all, g.strokes, <<>>)
  IN  IF len = 0
      THEN [g EXCEPT !.data_len = 0, !.ret = FALSE]
      ELSE [g EXCEPT
              !.data_len = len,
              !.data = dup.data \o [i \in 1 .. len - Len(dup.data) |-> NullStroke],
              !.strokes = [i \in 1 .. Len(dup.strokes) |->
                             [dup.strokes[i] EXCEPT !.select = FALSE]],
              !.ret = TRUE]

\* The loop of gpencil_asset_set_selection from element index on: it reads
\* data->gpf->flag and data->gps->flag, so a null element stops it there.
RECURSIVE SetSelection(_, _, _, _)
SetSelection(g, index, strokes, enable) ==
  IF index > g.data_len THEN [strokes |-> strokes, null |-> FALSE]
  ELSE IF g.data[index].gpf = 0 \/ g.data[index].gps = 0
  THEN [strokes |-> strokes, null |-> TRUE]
  ELSE SetSelection(g, index + 1,
                    [strokes EXCEPT ![g.data[index].gps].select = enable],
                    enable)

\* gpencil_asset_import_invoke up to the selection: the strokes are
\* appended; without strokes the operator is cancelled.
gpencil_asset_append_strokes ==
  /\ gpd.pc = "invoke"
  /\ LET g == AppendStrokes(gpd)
     IN  gpd' = IF g.ret THEN [g EXCEPT !.pc = "appended"]
                ELSE [g EXCEPT !.pc = "finished",
                               !.result = "OPERATOR_CANCELLED"]
  /\ UNCHANGED beside_gpd

\* gpencil_asset_set_selection(tgpa, true): the read through a null
\* pointer ends the program.
gpencil_asset_set_selection ==
  /\ gpd.pc = "appended"
  /\ LET s == SetSelection(gpd, 1, gpd.strokes, TRUE)
     IN  gpd' = [gpd EXCEPT !.strokes = s.strokes,
                            !.pc = IF s.null THEN "crashed" ELSE "selected"]
  /\ UNCHANGED beside_gpd

\* gpencil_asset_import_exit and the end of the invoke handler.
gpencil_asset_import_exit ==
  /\ gpd.pc = "selected"
  /\ gpd' = [gpd EXCEPT !.pc = "finished", !.result = "OPERATOR_FINISHED",
                        !.data = <<>>, !.data_len = 0]
  /\ UNCHANGED beside_gpd

NextAsset ==
  \/ gpencil_asset_append_strokes
  \/ gpencil_asset_set_selection
  \/ gpencil_asset_import_exit

SpecAsset == InitAsset /\ [][NextAsset]_vars

----------------------------------------------------------------------------
(* What the current call did, as the claims read it.                       *)

AddedPage == call.op = "add_newpage"

\* The page of the current call is one of the document's pages.
ValidPage == AddedPage /\ call.pagenum < totpages_

\* The method returned; call.ret is its result.
Returned == pc = "ret"

\* The last step was a load_and_draw_image call.
IsItem == ev.ev = "item"

N == params_.len

K == params_.rows * params_.cols

Min(a, b) == IF a <= b THEN a ELSE b

----------------------------------------------------------------------------
(* C1: the total page count is the ceiling of N / K, that is the one t     *)
(* with (t - 1) * K < N <= t * K, and it is 0 exactly when N = 0.          *)
C1_TotalPagesIsCeiling ==
  /\ (totpages_ - 1) * K < N
  /\ N <= totpages_ * K
  /\ (totpages_ = 0 <=> N = 0)

C1_Witness == N = 7 /\ K = 6 /\ totpages_ = 2

(* C2 as claimed: for every page p < totalPages, add_newpage(p) on a       *)
(* created document places exactly the items p*K .. min((p+1)*K, N) - 1,   *)
(* in increasing order.                                                    *)
C2_EveryPagePlacesItsRange ==
  (ValidPage /\ Returned /\ pdf_ = "live") =>
    /\ Len(placed) = Min((call.pagenum + 1) * K, N) - call.pagenum * K
    /\ \A j \in 1 .. Len(placed) : placed[j].idx = call.pagenum * K + j - 1

(* C2 as amended: every add_newpage(p), p < totalPages, that returns true  *)
(* places exactly the items p*K .. min((p+1)*K, N) - 1 in increasing       *)
(* order: K items on every page before the last, and N - K*(totalPages-1), *)
(* between 1 and K, on the last; one that returns false places no item.    *)
C2_SuccessfulPagePlacesItsRange ==
  ValidPage =>
    /\ \A j \in 1 .. Len(placed) : placed[j].idx = call.pagenum * K + j - 1
    /\ Returned =>
         IF call.ret
         THEN /\ Len(placed) = Min((call.pagenum + 1) * K, N) - call.pagenum * K
              /\ (call.pagenum < totpages_ - 1 => Len(placed) = K)
              /\ (call.pagenum = totpages_ - 1 =>
                    /\ Len(placed) = N - K * (totpages_ - 1)
                    /\ Len(placed) \in 1 .. K)
         ELSE placed = <<>>

C2_Witness ==
  /\ N = 7 /\ K = 6 /\ ValidPage /\ Returned /\ call.ret /\ call.pagenum = 1
  /\ Len(placed) = 1 /\ placed[1].idx = 6

(* C3: the item at position i of a page (0 <= i < K) is placed in the cell *)
(* row = rows-1 - i \div cols, col = i % cols; position 0 is in cell       *)
(* (rows-1, 0), position K-1 in cell (0, cols-1), and no two items of a    *)
(* page share a cell.                                                      *)
C3_CellOfPosition ==
  AddedPage =>
    /\ Len(placed) <= K
    /\ \A j \in 1 .. Len(placed) :
         /\ placed[j].row = params_.rows - 1 - ((j - 1) \div params_.cols)
         /\ placed[j].col = (j - 1) % params_.cols
    /\ (Len(placed) >= 1 => placed[1].row = params_.rows - 1 /\ placed[1].col = 0)
    /\ (Len(placed) = K => placed[K].row = 0 /\ placed[K].col = params_.cols - 1)
    /\ \A i, j \in 1 .. Len(placed) :
         (placed[i].row = placed[j].row /\ placed[i].col = placed[j].col) => i = j

C3_Witness ==
  /\ ValidPage /\ Returned /\ call.ret /\ params_.rows = 2 /\ params_.cols = 3
  /\ Len(placed) = 6 /\ placed[5].row = 0 /\ placed[5].col = 1

(* C4: filling a page p < totalPages stops as soon as item N-1 has been    *)
(* placed, even in the middle of a row: nothing is placed after item N-1   *)
(* and the cells after its cell receive no item.                           *)
C4_StopsAtLastItem ==
  ValidPage =>
    /\ \A j \in 1 .. Len(placed) : placed[j].idx = N - 1 => j = Len(placed)
    /\ \A j \in 1 .. Len(placed) : placed[j].idx < N
    /\ (placed # <<>> /\ placed[Len(placed)].idx = N - 1) => Returned
    /\ (Returned /\ call.ret /\ call.pagenum = totpages_ - 1) =>
          /\ placed[Len(placed)].idx = N - 1
          /\ Cardinality({<<placed[j].row, placed[j].col>> : j \in 1 .. Len(placed)})
               = N - call.pagenum * K

\* A last page that ends in the middle of its first row.
C4_Witness ==
  /\ ValidPage /\ Returned /\ call.ret /\ call.pagenum = totpages_ - 1
  /\ params_.cols = 3 /\ Len(placed) = 2
  /\ placed[2].idx = N - 1 /\ placed[2].col = 1

----------------------------------------------------------------------------
(* The geometry claims.                                                    *)

Computed == thumb_size_ # Uninit /\ N > 0

FirstW == params_.items[0][1]

FirstH == params_.items[0][2]

\* r >= 0 rounded to one decimal, in tenths.
Tenths(r) == (20 * r[1] + r[2]) \div (2 * r[2])

(* C5: thumbWidth = min(canvasWidth/(cols+oversize),                       *)
(* canvasHeight/(rows+oversize)) with oversize 0 when iw/ih > 2.0 and 0.25 *)
(* otherwise (also at exactly 2.0), thumbHeight = thumbWidth*ih/iw; rows=2,*)
(* cols=3, canvas 3680x2000, first image 1920x1080 give 888.9 and 500.0.   *)
C5_ThumbnailSize ==
  Computed =>
    LET over == IF FirstW > 2 * FirstH THEN RInt(0) ELSE RQ(25, 100)
        xs == RDiv(canvas_size_[1], RAdd(RInt(params_.cols), over))
        ys == RDiv(canvas_size_[2], RAdd(RInt(params_.rows), over))
    IN  /\ thumb_size_[1] \in {xs, ys}
        /\ RLe(thumb_size_[1], xs) /\ RLe(thumb_size_[1], ys)
        /\ RMul(thumb_size_[2], RInt(FirstW)) = RMul(thumb_size_[1], RInt(FirstH))
        /\ (/\ params_.rows = 2 /\ params_.cols = 3
            /\ canvas_size_ = <<RInt(3680), RInt(2000)>>
            /\ FirstW = 1920 /\ FirstH = 1080)
           => Tenths(thumb_size_[1]) = 8889 /\ Tenths(thumb_size_[2]) = 5000

C5_Witness ==
  /\ Computed /\ params_.rows = 2 /\ params_.cols = 3
  /\ canvas_size_ = <<RInt(3680), RInt(2000)>>
  /\ FirstW = 1920 /\ FirstH = 1080
  /\ Tenths(thumb_size_[1]) = 8889

(* C6: once page 0 has been added, thumbHeight/thumbWidth is ih/iw of the  *)
(* first item's image, and every item of every page is scaled to and drawn *)
(* with that width and height, whatever its own image.                     *)
C6_FirstItemSizesAll ==
  Computed =>
    /\ RDiv(thumb_size_[2], thumb_size_[1]) = RQ(FirstH, FirstW)
    /\ IsItem =>
         /\ ev.stage # "load" => ev.scaled = thumb_size_
         /\ ev.called => ev.size = thumb_size_

\* An item of a later page whose image has another aspect ratio is drawn.
C6_Witness ==
  /\ Computed /\ ValidPage /\ call.pagenum > 0
  /\ IsItem /\ ev.drawn
  /\ RQ(ev.img[2], ev.img[1]) # RQ(FirstH, FirstW)
  /\ ev.size = thumb_size_

(* C7: with the canvas the page minus the margin on both sides of each     *)
(* axis, gap = (canvas - thumb*n)/n per axis (n = cols, rows), offset =    *)
(* margin + gap/2, and the item of cell (row, col) is drawn at             *)
(* x = offsetX + col*(thumbWidth+gapX), y = offsetY + row*(thumbHeight+gapY). *)
C7_GapOffsetPosition ==
  Computed =>
    LET cw == params_.page_size[1] - 2 * PAGE_MARGIN_X
        ch == params_.page_size[2] - 2 * PAGE_MARGIN_Y
        c == RInt(params_.cols)
        r == RInt(params_.rows)
    IN  /\ canvas_size_ = <<RInt(cw), RInt(ch)>>
        /\ RMul(gap_size_[1], c) = RSub(RInt(cw), RMul(thumb_size_[1], c))
        /\ RMul(gap_size_[2], r) = RSub(RInt(ch), RMul(thumb_size_[2], r))
        /\ RMul(RSub(offset_[1], RInt(PAGE_MARGIN_X)), RInt(2)) = gap_size_[1]
        /\ RMul(RSub(offset_[2], RInt(PAGE_MARGIN_Y)), RInt(2)) = gap_size_[2]
        /\ (IsItem /\ ev.called) =>
             /\ RSub(ev.pos[1], offset_[1])
                  = RMul(RInt(ev.col), RAdd(thumb_size_[1], gap_size_[1]))
             /\ RSub(ev.pos[2], offset_[2])
                  = RMul(RInt(ev.row), RAdd(thumb_size_[2], gap_size_[2]))

C7_Witness ==
  /\ Computed /\ ValidPage /\ IsItem /\ ev.drawn /\ ev.row = 1 /\ ev.col = 2

\* The thumbnail grid is larger than the canvas on axis a (1 = x, 2 = y).
GridExceeds(a) ==
  RLt(canvas_size_[a],
      RMul(thumb_size_[a], RInt(IF a = 1 THEN params_.cols ELSE params_.rows)))

\* The index of the drawn item's cell on axis a.
CellIndex(a) == IF a = 1 THEN ev.col ELSE ev.row

(* C8: the gap is never clamped: when the thumbnail grid is larger than    *)
(* the canvas on an axis, the gap on that axis is negative, the offset is  *)
(* the margin plus half of it, and an item is drawn one thumbnail plus     *)
(* that gap, less than a thumbnail, from its neighbour's cell on that      *)
(* axis, so the two overlap.                                               *)
C8_NegativeGapNotClamped ==
  Computed =>
    \A a \in {1, 2} :
      GridExceeds(a) =>
        /\ gap_size_[a][1] < 0
        /\ RLt(offset_[a], RInt(IF a = 1 THEN PAGE_MARGIN_X ELSE PAGE_MARGIN_Y))
        /\ (IsItem /\ ev.called /\ CellIndex(a) >= 1) =>
             LET neighbour == RAdd(offset_[a],
                                   RMul(RInt(CellIndex(a) - 1),
                                        RAdd(thumb_size_[a], gap_size_[a])))
             IN  /\ RSub(ev.pos[a], neighbour) = RAdd(thumb_size_[a], gap_size_[a])
                 /\ RLt(RSub(ev.pos[a], neighbour), thumb_size_[a])

\* An item drawn in the row above another, on a page whose vertical gap is
\* negative, less than a thumbnail above that row.
C8_Witness ==
  /\ Computed /\ ValidPage /\ GridExceeds(2)
  /\ IsItem /\ ev.drawn /\ ev.row = 1
  /\ RLt(RSub(ev.pos[2], offset_[2]), thumb_size_[2])

(* C9: thumbnail size, gap and offset change only in the step that adds    *)
(* page 0; every step of adding a page p > 0 leaves all three unchanged.   *)
C9_GeometryOnlyOnPageZero ==
  [][/\ (call'.op = "add_newpage" /\ call'.pagenum > 0) => UNCHANGED geometry
     /\ geometry' # geometry
          => pc = "idle" /\ call'.op = "add_newpage" /\ call'.pagenum = 0]_vars

\* An item of a later page is drawn with the geometry of page 0.
C9_Witness ==
  /\ Computed /\ ValidPage /\ call.pagenum > 0
  /\ IsItem /\ ev.drawn /\ ev.size = thumb_size_

\* The cell the loops visit after (row, col).
NextCell(row, col) ==
  IF col + 1 < params_.cols THEN <<row, col + 1>> ELSE <<row - 1, 0>>

(* C10: when loading or converting an item's image fails while a page is    *)
(* filled, nothing is drawn for the failed item, the item after it (if the  *)
(* page has one) is handled next, in the next cell, and add_newpage         *)
(* returns true with every item of the page handled.                        *)
C10_ItemFailureSkipsOneCell ==
  /\ []((AddedPage /\ Returned /\ placed # <<>>) =>
          /\ call.ret
          /\ ValidPage =>
               Len(placed) = Min((call.pagenum + 1) * K, N) - call.pagenum * K)
  /\ [][(pc = "fill" /\ ev'.stage # "none") =>
          /\ ~ev'.called /\ ~ev'.drawn /\ ev'.pos = Nil
          /\ loop'.idx = loop.idx + 1
          /\ (ValidPage /\ loop.idx + 1 < Min((call.pagenum + 1) * K, N))
               => pc' = "fill"
          /\ pc' = "fill" => <<loop'.r, loop'.c>> = NextCell(loop.r, loop.c)
          /\ pc' = "ret" => call'.ret]_vars

\* An item failed in the middle of a page and the loops are at the next cell.
C10_Witness ==
  /\ ValidPage /\ pc = "fill" /\ Len(placed) = 2
  /\ IsItem /\ ev.stage # "none" /\ ~ev.drawn
  /\ loop.idx = placed[2].idx + 1
  /\ <<loop.r, loop.c>> = NextCell(placed[2].row, placed[2].col)

----------------------------------------------------------------------------
(* C11: when add_newpage returns and the image of an item it handled       *)
(* failed to load, the warning count reported to the caller is the number  *)
(* of failed items: at least 1, and exactly 1 when the page had one item.  *)
C11_FailuresAreCounted ==
  (AddedPage /\ Returned /\ IsItem /\ ev.stage = "load") =>
    /\ WarningsReported >= 1
    /\ Len(placed) = 1 => WarningsReported = 1

(* C12: when the load of the first item's image fails, add_newpage(0)      *)
(* returns false in that step, the thumbnail geometry stays as it was, the *)
(* page frame is not drawn and no item is handled.                         *)
C12_FirstImageFailureFailsPageZero ==
  [][(pc = "idle" /\ ev'.ev = "begin" /\ ev'.first = "failed") =>
       /\ call'.op = "add_newpage" /\ call'.pagenum = 0
       /\ pc' = "ret" /\ ~call'.ret
       /\ UNCHANGED geometry
       /\ frame' = Nil /\ ev'.frame = Nil
       /\ placed' = <<>>]_vars

\* Page 0 of a created document failed at the first image of a filled list.
C12_Witness ==
  /\ Returned /\ AddedPage /\ call.pagenum = 0 /\ ~call.ret
  /\ pdf_ = "live" /\ N > 0
  /\ ev.ev = "begin" /\ ev.first = "failed"
  /\ thumb_size_ = Uninit /\ placed = <<>>

(* C13: when save_document fails after the pages were drawn,              *)
(* create_contact_sheet_pdf goes on to the cleanup and returns failure,    *)
(* and the document handle is released exactly once: it is released when   *)
(* the call returns, and no release is of a handle released before.        *)
C13_SaveFailureFreesOnce ==
  /\ drv.save = "failed" =>
       /\ ~drv.done
       /\ drv.pc \in {"free", "engine_ret", "finished"}
       /\ drv.pc \in {"engine_ret", "finished"} => pdf_ = "freed"
  /\ ev.ev = "HPDF_Free" => ev.doc = "live"

\* The save failed after two pages, and the call returned.
C13_Witness ==
  /\ drv.pc = "engine_ret" /\ drv.save = "failed" /\ ~drv.done
  /\ totpages_ = 2 /\ drv.p = 1 /\ pdf_ = "freed"

(* C14: free_document releases the document handle when one exists and     *)
(* does nothing otherwise, and a handle it released is never released      *)
(* again.                                                                  *)
C14_HandleReleasedOnce ==
  /\ (call.op = "free_document" /\ Returned) => pdf_ # "live"
  /\ ev.ev = "HPDF_Free" => ev.doc = "live"

(* C15: a create_document whose HPDF_New fails returns false in that step, *)
(* with the document handle null, no page added and nothing drawn.         *)
C15_CreateFailureLeavesNoDocument ==
  [][(pc = "idle" /\ call'.op = "create_document" /\ ~call'.ret) =>
       /\ pc' = "ret"
       /\ pdf_' = "null"
       /\ UNCHANGED <<page_, placed, frame>>
       /\ ev' = NoEvent]_vars

\* create_document failed on an object whose earlier document was freed.
C15_Witness ==
  /\ Returned /\ call.op = "create_document" /\ ~call.ret
  /\ pdf_ = "null" /\ thumb_size_ # Uninit

C17_ItemsUnmodified ==
  CString(data.str, 1) = data.given

(* C18: in every add_newpage the page frame is drawn in the step that adds *)
(* the page, before any item is handled; it is drawn exactly when the page *)
(* was added, and an item is drawn only on a page whose frame was drawn.   *)
C18_FrameBeforeItems ==
  /\ [](AddedPage =>
          /\ (pc = "fill" \/ placed # <<>>) => frame # Nil
          /\ frame # Nil =>
               /\ frame.pagenum = call.pagenum
               /\ frame.drawn <=> page_ = "live"
          /\ (IsItem /\ ev.drawn) => frame.drawn)
  /\ [][/\ (pc = "idle" /\ pc' = "fill") => (frame' # Nil /\ placed' = <<>>)
        /\ pc = "fill" => frame' = frame]_vars

\* An item is drawn on a later page, whose frame was drawn.
C18_Witness ==
  /\ ValidPage /\ call.pagenum > 0 /\ IsItem /\ ev.drawn
  /\ frame # Nil /\ frame.drawn /\ frame.pagenum = call.pagenum

(* C19: add_newpage never reads an item at an index >= N: not in its       *)
(* loops, and not when it loads the first item's image.                    *)
C19_NeverReadsPastEnd ==
  AddedPage =>
    /\ \A j \in 1 .. Len(placed) : placed[j].idx < N
    /\ (ev.ev = "begin" /\ ev.first # "none") => N > 0

(* C20: when HPDF_AddPage fails, add_newpage returns false without calling *)
(* the logo, the page frame or any item.                                   *)
C20_PageFailureReturnsFalse ==
  (AddedPage /\ page_ = "null") =>
    /\ Returned /\ ~call.ret
    /\ placed = <<>> /\ frame = Nil /\ ev = NoEvent

(* C21: draw_thumbnail writes the item name, then the tokens of the        *)
(* annotation text (the runs of characters between separators, as the text *)
(* reads when the call starts) in their order on lines 1, 2, ..., one per  *)
(* line, at most 4 of them and no other line with a text; an empty  *)
(* text gets the name only.                                                *)
RECURSIVE TokenOf(_)
TokenOf(s) ==
  IF s = <<>> \/ Head(s) = sep THEN <<>> ELSE <<Head(s)>> \o TokenOf(Tail(s))

RECURSIVE Tokens(_)
Tokens(s) ==
  IF s = <<>> THEN <<>>
  ELSE IF Head(s) = sep THEN Tokens(Tail(s))
  ELSE LET t == TokenOf(s)
       IN  <<t>> \o Tokens(SubSeq(s, Len(t) + 1, Len(s)))

IsTextLine(l) == ~l.null

C21_TokensInOrderAtMostFour ==
  [][LET text == CString(data.str, 1)
         toks == Tokens(text)
         k == Min(Len(toks), 4)
     IN  /\ texts' # <<>>
         /\ texts'[1] = [i |-> 0, null |-> FALSE, text |-> ItemName]
         /\ Len(texts') - 1 <= 4
         /\ SelectSeq(Tail(texts'), IsTextLine) =
              [j \in 1 .. k |-> [i |-> j, null |-> FALSE, text |-> toks[j]]]
         /\ text = <<>> => Len(texts') = 1]_vars

\* A text of five tokens was drawn: four lines under the name.
C21_Witness ==
  /\ Len(Tokens(data.given)) > 4
  /\ Len(texts) = 1 + 4
  /\ \A j \in 1 .. 4 : texts[j + 1].text = Tokens(data.given)[j]
  /\ texts[2].text # texts[3].text

(* C22: when load_and_draw_image or load_and_draw_logo has returned, the   *)
(* datablock and the JPEG file it created are gone: bmain_ holds no        *)
(* temporary image and the temporary directory no file of the call.        *)
C22_TemporariesRemoved ==
  temp.at = "ret" => /\ temp.images = 0
                     /\ temp.files = 0
                     /\ temp.ima # "live"

\* A thumbnail position was computed.
IsThumbnail == ev.ev = "thumbnail"

(* C23: the horizontal gap is never negative, and every thumbnail lies     *)
(* within the canvas horizontally: marginX <= x and                        *)
(* x + thumbWidth <= marginX + canvasWidth.                                *)
C23_HorizontalGapNonNegative ==
  thumb_size_ # Uninit =>
    /\ gap_size_[1][1] >= 0
    /\ IsThumbnail =>
         /\ RLe(RInt(PAGE_MARGIN_X), ev.pos[1])
         /\ RLe(RAdd(ev.pos[1], ev.size[1]),
                RAdd(RInt(PAGE_MARGIN_X), canvas_size_[1]))

\* The last column of a grid of a wide image (oversize 0) whose thumbnails
\* fill the canvas width: no gap, the right edge on the canvas's edge.
C23_Witness ==
  /\ IsThumbnail /\ cols_ >= 2 /\ ev.col = cols_ - 1
  /\ gap_size_[1] = RInt(0)
  /\ RAdd(ev.pos[1], ev.size[1]) = RAdd(RInt(PAGE_MARGIN_X), canvas_size_[1])

(* C24 as stated: the vertical gap is never negative and every thumbnail   *)
(* lies within the canvas vertically: marginY <= y and                     *)
(* y + thumbHeight <= marginY + canvasHeight.                              *)
C24_VerticalGapNonNegative ==
  thumb_size_ # Uninit =>
    /\ gap_size_[2][1] >= 0
    /\ IsThumbnail =>
         /\ RLe(RInt(PAGE_MARGIN_Y), ev.pos[2])
         /\ RLe(RAdd(ev.pos[2], ev.size[2]),
                RAdd(RInt(PAGE_MARGIN_Y), canvas_size_[2]))

(* C24 amended: the vertical gap is non-negative exactly when the rows of  *)
(* thumbnails are not higher than the canvas (thumbHeight * rows <=        *)
(* canvasHeight), and then every thumbnail lies within the canvas          *)
(* vertically; for a taller first image the gap is negative, the first row *)
(* starts under marginY and the last row ends over marginY + canvasHeight. *)
C24_VerticalGapSign ==
  thumb_size_ # Uninit =>
    LET fits == RLe(RMul(thumb_size_[2], RInt(rows_)), canvas_size_[2])
        top == RAdd(RInt(PAGE_MARGIN_Y), canvas_size_[2])
    IN  /\ gap_size_[2][1] >= 0 <=> fits
        /\ (IsThumbnail /\ fits) =>
             /\ RLe(RInt(PAGE_MARGIN_Y), ev.pos[2])
             /\ RLe(RAdd(ev.pos[2], ev.size[2]), top)
        /\ (IsThumbnail /\ ~fits /\ ev.row = 0) =>
             RLt(ev.pos[2], RInt(PAGE_MARGIN_Y))
        /\ (IsThumbnail /\ ~fits /\ ev.row = rows_ - 1) =>
             RLt(top, RAdd(ev.pos[2], ev.size[2]))

\* A thumbnail of the first row of a grid higher than the canvas.
C24_Witness ==
  /\ IsThumbnail /\ rows_ >= 2 /\ ev.row = 0
  /\ gap_size_[2][1] < 0
  /\ RLt(ev.pos[2], RInt(PAGE_MARGIN_Y))

(* C25: when the operator's exec has returned, the parameter block it      *)
(* allocated is freed, the item array is freed if it was allocated, and    *)
(* op->customdata no longer refers to them.                                *)
C25_ExecFreesItsAllocations ==
  (drv.entry = "exec" /\ drv.pc = "finished") =>
    /\ drv.load_data = "freed"
    /\ drv.items # "allocated"
    /\ drv.customdata = "NULL"

\* WM_cursor_modal_restore has just ended a run of modal sets made on a
\* window whose cursor was set.
RestoredModal ==
  /\ win.op = "WM_cursor_modal_restore"
  /\ win.closed = "modal"
  /\ win.before # "0"

(* C26 as stated: one or more WM_cursor_modal_set calls on a window whose   *)
(* cursor is set, then WM_cursor_modal_restore, leave the window with the  *)
(* cursor it had before the first of them, modalcursor = 0 and             *)
(* lastcursor = 0.                                                         *)
C26_ModalRestoreGivesBack ==
  RestoredModal =>
    /\ win.cursor = win.before
    /\ win.modalcursor = "0"
    /\ win.lastcursor = "0"

(* C26 amended: the restore leaves modalcursor = 0 and lastcursor = 0 and  *)
(* applies the cursor lastcursor held: the one saved before the run if     *)
(* there was one, else the cursor before the first modal set. That cursor  *)
(* becomes the window's cursor, except that WM_CURSOR_NONE only hides the  *)
(* cursor; in background mode no call of the run changes the cursor.       *)
C26_ModalRestoreAppliesSaved ==
  RestoredModal =>
    LET kept == IF win.saved # "0" THEN win.saved ELSE win.before
    IN  /\ win.modalcursor = "0"
        /\ win.lastcursor = "0"
        /\ win.background => win.cursor = win.before
        /\ (~win.background /\ kept # "WM_CURSOR_NONE") =>
             /\ win.cursor = kept
             /\ win.shape = kept
             /\ win.visible
        /\ (~win.background /\ kept = "WM_CURSOR_NONE") => ~win.visible
        /\ (win.saved = "0" /\ win.before # "WM_CURSOR_NONE") =>
             win.cursor = win.before

\* Two modal sets or more, then the restore, on a window that showed the
\* default cursor and had none saved.
C26_Witness ==
  /\ RestoredModal /\ win.count = 2 /\ ~win.background
  /\ win.saved = "0" /\ win.before = "WM_CURSOR_DEFAULT"
  /\ win.cursor = "WM_CURSOR_DEFAULT" /\ win.shape = "WM_CURSOR_DEFAULT"

(* C27: while a modal cursor is active (modalcursor # 0),                  *)
(* WM_cursor_set(win, WM_CURSOR_DEFAULT) applies the modal cursor, not the *)
(* default one, and WM_cursor_set_from_tool returns false and changes no   *)
(* field of the window and nothing of what it shows.                       *)
C27_ModalCursorNotOverridden ==
  [][win.modalcursor # "0" =>
       /\ (win'.op = "WM_cursor_set" /\ win'.arg = "WM_CURSOR_DEFAULT") =>
            LET m == win.modalcursor
            IN  /\ win'.modalcursor = m
                /\ win'.lastcursor = win.lastcursor
                /\ win.background =>
                     /\ win'.cursor = win.cursor
                     /\ win'.shape = win.shape
                     /\ win'.visible = win.visible
                /\ (~win.background /\ m = "WM_CURSOR_NONE") =>
                     /\ ~win'.visible
                     /\ win'.cursor = win.cursor
                     /\ win'.shape = win.shape
                /\ (~win.background /\ m # "WM_CURSOR_NONE") =>
                     /\ win'.visible
                     /\ win'.cursor = m
                     /\ win'.shape = IF win.cursor = m THEN win.shape ELSE m
       /\ win'.op = "WM_cursor_set_from_tool" =>
            /\ ~win'.ret
            /\ win'.cursor = win.cursor
            /\ win'.lastcursor = win.lastcursor
            /\ win'.modalcursor = win.modalcursor
            /\ win'.shape = win.shape
            /\ win'.visible = win.visible]_vars

\* The default cursor was asked for under the modal wait cursor, which the
\* window shows.
C27_Witness ==
  /\ win.op = "WM_cursor_set" /\ win.arg = "WM_CURSOR_DEFAULT"
  /\ win.modalcursor = "WM_CURSOR_WAIT" /\ ~win.background
  /\ win.cursor = "WM_CURSOR_WAIT" /\ win.shape = "WM_CURSOR_WAIT"
  /\ win.lastcursor = "WM_CURSOR_EDIT"

\* WM_cursor_modal_restore has just ended a run of WM_cursor_time calls.
RestoredTime ==
  /\ win.op = "WM_cursor_modal_restore"
  /\ win.closed = "time"

\* WM_cursor_time saves the current cursor in lastcursor only when none is
\* saved, and unsets the current cursor value.
TimeSavesOnce ==
  win'.op = "WM_cursor_time" =>
    /\ win'.lastcursor = IF win.lastcursor = "0" THEN win.cursor
                         ELSE win.lastcursor
    /\ win'.cursor = "0"
    /\ win'.shape = "time"

(* C28 as stated: WM_cursor_time saves the current cursor only when none   *)
(* is saved and resets the current cursor to 0, and the restore that       *)
(* follows any number of WM_cursor_time calls re-applies the cursor that   *)
(* was active before the first of them.                                    *)
C28_TimeRestoreGivesBack ==
  /\ [](RestoredTime => /\ win.cursor = win.before
                         /\ win.lastcursor = "0")
  /\ [][TimeSavesOnce]_vars

(* C28 amended: WM_cursor_time saves the current cursor only when none is  *)
(* saved and resets the current cursor to 0; the restore that follows the  *)
(* calls applies the cursor lastcursor held: the one saved before the      *)
(* first call if there was one, else the cursor active before it. If that  *)
(* is 0 nothing is applied and the digits stay; WM_CURSOR_NONE only hides  *)
(* the cursor; in background mode the cursor stays 0.                      *)
C28_TimeRestoreAppliesSaved ==
  /\ [](RestoredTime =>
          LET kept == IF win.saved # "0" THEN win.saved ELSE win.before
          IN  /\ win.lastcursor = "0"
              /\ win.modalcursor = "0"
              /\ (~win.background /\ kept \notin {"0", "WM_CURSOR_NONE"}) =>
                   /\ win.cursor = kept
                   /\ win.shape = kept
                   /\ win.visible
              /\ kept = "0" => (win.cursor = "0" /\ win.shape = "time")
              /\ (~win.background /\ kept = "WM_CURSOR_NONE") =>
                   (win.cursor = "0" /\ ~win.visible)
              /\ win.background => win.cursor = "0")
  /\ [][TimeSavesOnce]_vars

\* Two WM_cursor_time calls or more, then the restore, on a window that
\* showed the edit cursor and had none saved.
C28_Witness ==
  /\ RestoredTime /\ win.count = 2 /\ ~win.background
  /\ win.saved = "0" /\ win.before = "WM_CURSOR_EDIT"
  /\ win.cursor = "WM_CURSOR_EDIT" /\ win.shape = "WM_CURSOR_EDIT"

(* C29: after gpencil_asset_append_strokes returned true, each of the      *)
(* data_len elements of tgpa->data names a layer, a frame and a stroke of  *)
(* the target (none is null), and after gpencil_asset_set_selection the    *)
(* selected strokes are exactly the ones this import appended.             *)
C29_RecordedStrokesAreSet ==
  /\ gpd.pc \in {"appended", "selected", "crashed"} =>
       /\ Len(gpd.data) = gpd.data_len
       /\ \A i \in 1 .. gpd.data_len :
            /\ gpd.data[i].gpl # 0
            /\ gpd.data[i].gpf # 0
            /\ gpd.data[i].gps \in 1 .. Len(gpd.strokes)
  /\ gpd.pc # "crashed"
  /\ gpd.pc = "selected" =>
       \A j \in 1 .. Len(gpd.strokes) :
         gpd.strokes[j].select <=> gpd.strokes[j].imported

====
